---- MODULE Spec2Model ----
(***************************************************************************)
(* Model of docs/versions.py: the version-selector link resolution         *)
(* (VersionManagement.get_value_for_option and friends) and the build /    *)
(* promote workflow of the versioned documentation tree.                   *)
(*                                                                         *)
(* Strings are sequences of one-character strings, so that str.replace and *)
(* str.rstrip are computed character by character as Python computes them. *)
(***************************************************************************)
EXTENDS Integers, Sequences, FiniteSets, TLC

\* ------------------------------------------------------------------------
\* Names of the bounded universe (every string is a sequence of characters)
\* ------------------------------------------------------------------------

\* --default-branch-name, default 'master'
Master == <<"m","a","s","t","e","r">>

\* the other default branch name get_html_filepaths knows
Main == <<"m","a","i","n">>

\* release tags the release lister can return
V0 == <<"v","0">>

V1 == <<"v","1">>

V2 == <<"v","2">>

\* names of built files and directories
IndexHtml == <<"i","n","d","e","x",".","h","t","m","l">>

SearchHtml == <<"s","e","a","r","c","h",".","h","t","m","l">>

AnnexHtml == <<"a","n","n","e","x",".","h","t","m","l">>

Api == <<"a","p","i">>

Dev == <<"d","e","v">>

\* --docsdir, as path segments ('/tmp/abc' in test_versions.py)
DocsDir == << <<"t","m","p">>, <<"a","b","c">> >>

\* ------------------------------------------------------------------------
\* Python str / pathlib helpers
\* ------------------------------------------------------------------------

RECURSIVE Repeat(_, _)
\* s * n
Repeat(s, n) == IF n <= 0 THEN <<>> ELSE s \o Repeat(s, n - 1)

RECURSIVE ReplaceDoubleSlash(_)
\* s.replace('//', '/'): one left-to-right pass over non-overlapping matches
ReplaceDoubleSlash(s) ==
  IF Len(s) < 2 THEN s
  ELSE IF s[1] = "/" /\ s[2] = "/"
       THEN <<"/">> \o ReplaceDoubleSlash(SubSeq(s, 3, Len(s)))
       ELSE <<s[1]>> \o ReplaceDoubleSlash(Tail(s))

RECURSIVE RStrip(_, _)
\* s.rstrip(chars): drop the maximal trailing run of characters of the set
RStrip(s, chars) ==
  IF s = <<>> \/ s[Len(s)] \notin chars THEN s
  ELSE RStrip(SubSeq(s, 1, Len(s) - 1), chars)

\* the character sets of the two rstrip arguments
IndexHtmlChars == {"i","n","d","e","x",".","h","t","m","l"}

HtmlChars == {".","h","t","m","l"}

\* s.startswith(prefix)
StartsWith(s, prefix) ==
  Len(s) >= Len(prefix) /\ SubSeq(s, 1, Len(prefix)) = prefix

RECURSIVE JoinParts(_)
\* '/'.join(parts)
JoinParts(parts) ==
  IF Len(parts) = 1 THEN parts[1]
  ELSE parts[1] \o <<"/">> \o JoinParts(Tail(parts))

\* str(Path(*parts)): the segments joined by '/', and '.' for no segment
PathStr(parts) == IF parts = <<>> THEN <<".">> ELSE JoinParts(parts)

\* html_filepath.relative_to(docsdir).parts
RelativeTo(path, base) == SubSeq(path, Len(base) + 1, Len(path))

\* ------------------------------------------------------------------------
\* VersionManagement.get_value_for_option
\* ------------------------------------------------------------------------

\* variant: the first segment is kept whatever it is
SelfValue_NeverStripped(parts, latest_version) == PathStr(parts)

\* variant: the first segment is dropped whatever it is
SelfValue_AlwaysStripped(parts, latest_version) == PathStr(Tail(parts))

\* version_in_dir == version_in_dropdown: the path relative to docsdir,
\* without its first segment when that segment is the latest version
SelfValue(parts, latest_version) ==
  IF parts[1] = latest_version
  THEN PathStr(Tail(parts))
  ELSE PathStr(parts)

\* variant: the file name is counted as a level
RelPathLen_OffByOne(parts) == Len(parts)

\* len(path_relative_to_docroot.parts) - 1
RelPathLen(parts) == Len(parts) - 1

\* version_in_dir != version_in_dropdown
CrossValue(parts, version_in_dropdown, version_in_dir, latest_version) ==
  LET rel_path    == IF version_in_dir = latest_version
                     THEN PathStr(parts)
                     ELSE PathStr(Tail(parts))
      rel_version == IF version_in_dropdown /= latest_version
                     THEN version_in_dropdown
                     ELSE <<>>
  IN ReplaceDoubleSlash(
       Repeat(<<".", ".", "/">>, RelPathLen(parts))
         \o rel_version \o <<"/">> \o rel_path)

\* the value before the trailing rstrip calls
ValueBeforeTrim(html_filepath, version_in_dropdown, version_in_dir, latest_version) ==
  LET parts == RelativeTo(html_filepath, DocsDir)
  IN IF version_in_dir = version_in_dropdown
     THEN SelfValue(parts, latest_version)
     ELSE CrossValue(parts, version_in_dropdown, version_in_dir,
                     latest_version)

\* s without the suffix suf, when it ends with it
RemoveSuffix(s, suf) ==
  IF Len(s) >= Len(suf) /\ SubSeq(s, Len(s) - Len(suf) + 1, Len(s)) = suf
  THEN SubSeq(s, 1, Len(s) - Len(suf))
  ELSE s

\* variant: the suffixes 'index.html' and '.html' are removed as substrings
TrailingTrim_Suffix(value) == RemoveSuffix(RemoveSuffix(value, IndexHtml), <<".","h","t","m","l">>)

\* value.rstrip('index.html').rstrip('.html')
TrailingTrim(value) == RStrip(RStrip(value, IndexHtmlChars), HtmlChars)

get_value_for_option(html_filepath, version_in_dropdown, version_in_dir, latest_version) ==
  TrailingTrim(ValueBeforeTrim(html_filepath, version_in_dropdown,
                               version_in_dir, latest_version))

\* ------------------------------------------------------------------------
\* Following a link: 'onChange': 'window.location.href=this.value'
\* ------------------------------------------------------------------------

\* index of the first '/' of s, 0 when there is none
FirstSlash(s) ==
  IF \E i \in 1..Len(s) : s[i] = "/"
  THEN CHOOSE i \in 1..Len(s) : s[i] = "/" /\ \A j \in 1..(i - 1) : s[j] /= "/"
  ELSE 0

RECURSIVE SplitSlash(_)
\* s.split('/')
SplitSlash(s) ==
  IF FirstSlash(s) = 0 THEN <<s>>
  ELSE <<SubSeq(s, 1, FirstSlash(s) - 1)>>
         \o SplitSlash(SubSeq(s, FirstSlash(s) + 1, Len(s)))

RECURSIVE Walk(_, _)
\* walk the segments of a relative reference from a directory; up counts the
\* levels climbed above docsdir
Walk(loc, segs) ==
  IF segs = <<>> THEN loc
  ELSE LET s == Head(segs)
       IN IF s = <<>> \/ s = <<".">>
          THEN Walk(loc, Tail(segs))
          ELSE IF s = <<".", ".">>
               THEN IF loc.segs = <<>>
                    THEN Walk([loc EXCEPT !.up = @ + 1], Tail(segs))
                    ELSE Walk([loc EXCEPT !.segs = SubSeq(@, 1, Len(@) - 1)],
                              Tail(segs))
               ELSE Walk([loc EXCEPT !.segs = Append(@, s)], Tail(segs))

\* the location the browser reaches by following value from the directory dir
\* (segments below docsdir); dir tells that the reference names a directory
Navigate(dir, value) ==
  LET sp   == SplitSlash(value)
      last == sp[Len(sp)]
      w    == Walk([up |-> 0, segs |-> dir], sp)
  IN [up |-> w.up, segs |-> w.segs,
      dir |-> (last = <<>> \/ last = <<".">> \/ last = <<".", ".">>)]

\* the directory that contains the document, below docsdir
DirOf(html_filepath) ==
  LET parts == RelativeTo(html_filepath, DocsDir)
  IN SubSeq(parts, 1, Len(parts) - 1)

\* the file a location names: a directory is served by its index.html
DocAt(loc) == DocsDir \o (IF loc.dir THEN Append(loc.segs, IndexHtml) ELSE loc.segs)

\* ------------------------------------------------------------------------
\* State
\* ------------------------------------------------------------------------

VARIABLES
  link,     \* the arguments of one get_value_for_option call
  out,      \* its result: <<>> before the call, <<[raw, value]>> after
  hop,      \* locations reached by following the self link, then the target
  direct,   \* location reached by following the link to the target directly
  tree,     \* the files below docsdir: path |-> [ver, run, vdir, opts]
  releases, \* the releases of the repository, newest first
  args,     \* the command line of the current run
  last_n_versions,        \* VersionManagement.last_n_versions
  existing_versions,      \* VersionManagement._existing_versions
  non_existing_versions,  \* VersionManagement._non_existing_versions
  pc,       \* the step the run is at
  queue,    \* build_versions: the versions still to build
  version,  \* build_versions: the version of the current iteration
  workspaces, \* temporary directories on disk: [version, worktree]
  built,    \* paths of the build output in the current worktree
  raised,   \* an exception is propagating through the with block
  outcome,  \* per version of this run: "materialized" or "failed"
  warned,   \* move_latest_version_to_root logged its warning
  runNo     \* number of runs started

linkVars == <<link, out, hop, direct>>

runVars == <<tree, releases, args, last_n_versions, existing_versions, non_existing_versions, pc, queue, version, workspaces, built, raised, outcome, warned, runNo>>

vars == <<linkVars, runVars>>

\* ------------------------------------------------------------------------
\* Bounds
\* ------------------------------------------------------------------------

\* deepest document: number of directories between the version root and it
MaxDepth == 2

\* number of runs of the script
MaxRuns == 2

\* largest --num-releases
MaxReleases == 2

\* ------------------------------------------------------------------------
\* Link resolution: one document, its version, one target version
\* ------------------------------------------------------------------------

RECURSIVE DirSeqs(_)
DirSeqs(n) ==
  IF n = 0 THEN {<<>>}
  ELSE DirSeqs(n - 1) \cup {Append(d, x) : d \in DirSeqs(n - 1), x \in {Api, Dev}}

\* paths of the documents of one build
DocPaths == {Append(d, f) : d \in DirSeqs(MaxDepth), f \in {IndexHtml, SearchHtml, AnnexHtml}}

\* the document p of version v: at docsdir/p when promoted, else docsdir/v/p
Located(p, v, promoted) == DocsDir \o (IF promoted THEN p ELSE <<v>> \o p)

\* no run in progress, nothing below docsdir
RunIdle ==
  /\ tree = <<>>
  /\ releases = <<>>
  /\ args = <<>>
  /\ last_n_versions = <<>>
  /\ existing_versions = <<>>
  /\ non_existing_versions = <<>>
  /\ pc = "idle"
  /\ queue = <<>>
  /\ version = <<>>
  /\ workspaces = {}
  /\ built = {}
  /\ raised = FALSE
  /\ outcome = <<>>
  /\ warned = FALSE
  /\ runNo = 0

LinkInit ==
  /\ \E p \in DocPaths, vdir \in {Master, V1, V2}, vdrop \in {Master, V1, V2},
        latest \in {V1, V2}, promoted \in BOOLEAN :
       /\ promoted => vdir = latest
       /\ link = [html_filepath       |-> Located(p, vdir, promoted),
                  version_in_dir      |-> vdir,
                  version_in_dropdown |-> vdrop,
                  latest_version      |-> latest]
  /\ out = <<>>
  /\ hop = <<>>
  /\ direct = <<>>
  /\ RunIdle

\* value = get_value_for_option(...) for the dropdown's version
Resolve ==
  /\ out = <<>>
  /\ out' = <<[raw   |-> ValueBeforeTrim(link.html_filepath, link.version_in_dropdown,
                                         link.version_in_dir, link.latest_version),
               value |-> get_value_for_option(link.html_filepath, link.version_in_dropdown,
                                              link.version_in_dir, link.latest_version)]>>
  /\ UNCHANGED <<link, hop, direct, runVars>>

\* the reader picks the target version in the document's selector
FollowDirect ==
  /\ out /= <<>>
  /\ direct = <<>>
  /\ direct' = <<Navigate(DirOf(link.html_filepath), out[1].value)>>
  /\ UNCHANGED <<link, out, hop, runVars>>

\* the reader follows the option of the document's own version
FollowSelf ==
  /\ hop = <<>>
  /\ hop' = <<Navigate(DirOf(link.html_filepath),
                       get_value_for_option(link.html_filepath, link.version_in_dir,
                                            link.version_in_dir, link.latest_version))>>
  /\ UNCHANGED <<link, out, direct, runVars>>

\* from the location reached, the reader picks the target version
FollowNext ==
  /\ Len(hop) = 1
  /\ hop[1].up = 0
  /\ hop' = Append(hop, Navigate(DirOf(DocAt(hop[1])),
                                 get_value_for_option(DocAt(hop[1]), link.version_in_dropdown,
                                                      link.version_in_dir, link.latest_version)))
  /\ UNCHANGED <<link, out, direct, runVars>>

LinkNext == Resolve \/ FollowDirect \/ FollowSelf \/ FollowNext

LinkSpec == LinkInit /\ [][LinkNext]_vars

\* the document sits where the layout puts the documents of its version
InLayout ==
  LET parts == RelativeTo(link.html_filepath, DocsDir)
  IN IF link.version_in_dir = link.latest_version
     THEN parts[1] /= link.latest_version
     ELSE parts[1] = link.version_in_dir

\* the document's path inside its version
LogicalPath ==
  LET parts == RelativeTo(link.html_filepath, DocsDir)
  IN IF parts[1] = link.version_in_dir THEN Tail(parts) ELSE parts

RECURSIVE LeadingUps(_)
\* number of '../' the value starts with
LeadingUps(value) ==
  IF StartsWith(value, <<".", ".", "/">>)
  THEN 1 + LeadingUps(SubSeq(value, 4, Len(value)))
  ELSE 0

\* C2: a cross-version value, before the trim, followed from the document's
\* directory, names docsdir/<target>/p (docsdir/p for the latest), and starts
\* with as many '../' as the document's path has segments, minus one.
C2_CrossLinkLands ==
  (out /= <<>> /\ InLayout /\ link.version_in_dropdown /= link.version_in_dir) =>
    /\ Navigate(DirOf(link.html_filepath), out[1].raw)
         = [up   |-> 0,
            segs |-> IF link.version_in_dropdown = link.latest_version
                     THEN LogicalPath
                     ELSE <<link.version_in_dropdown>> \o LogicalPath,
            dir  |-> FALSE]
    /\ LeadingUps(out[1].raw) = Len(RelativeTo(link.html_filepath, DocsDir)) - 1

C2_Witness ==
  /\ out /= <<>>
  /\ InLayout
  /\ link.version_in_dir = V1
  /\ link.latest_version = V2
  /\ link.version_in_dropdown = V2
  /\ Len(LogicalPath) = 3

\* C1 as stated: the hop path (self link, then the target's link) and the
\* direct link reach the same location, for every document.
C1_RoundTripAll ==
  (Len(hop) = 2 /\ direct /= <<>> /\ InLayout) => hop[2] = direct[1]

\* C1 amended: the hop path and the direct link reach the same location
\* exactly for the documents that sit directly in docsdir; for a document in
\* a directory the self link is relative to docsdir and leads elsewhere.
C1_RoundTripAtRoot ==
  (Len(hop) = 2 /\ direct /= <<>> /\ InLayout) =>
    (hop[2] = direct[1] <=> Len(RelativeTo(link.html_filepath, DocsDir)) = 1)

C1_Witness ==
  /\ Len(hop) = 2
  /\ direct /= <<>>
  /\ InLayout
  /\ link.html_filepath = DocsDir \o <<SearchHtml>>
  /\ link.version_in_dropdown = Master
  /\ hop[2] = direct[1]

\* ------------------------------------------------------------------------
\* The documentation tree below docsdir
\* ------------------------------------------------------------------------

\* the files of t whose paths are in S
Keep(t, S) == [p \in S |-> t[p]]

\* os.path.isdir(os.path.join(docsdir, name))
IsDir(t, name) == \E p \in DOMAIN t : Len(p) > 1 /\ p[1] = name

\* os.path.isfile(os.path.join(docsdir, name))
IsFile(t, name) == <<name>> \in DOMAIN t

\* os.listdir(docsdir), as a set
ListDir(t) == {p[1] : p \in DOMAIN t}

\* os.listdir(os.path.join(docsdir, name)), as a set
ListVersionDir(t, name) == {p[2] : p \in {q \in DOMAIN t : Len(q) > 1 /\ q[1] = name}}

\* the orders in which a listing can come
Orderings(S) == {f \in [1..Cardinality(S) -> S] : \A x \in S : \E i \in DOMAIN f : f[i] = x}

\* the elements of a list
Range(f) == {f[i] : i \in DOMAIN f}

\* a page as the builder of version v emits it: selector not rewritten
BuiltFile(v) == [ver |-> v, run |-> 0, vdir |-> <<>>, opts |-> <<>>]

\* shutil.copytree(src=<build output>, dst=docsdir/<name>)
CopyTree(t, files, name, v) ==
  LET new == {<<name>> \o f : f \in files}
  IN [p \in DOMAIN t \cup new |-> IF p \in new THEN BuiltFile(v) ELSE t[p]]

\* build outputs the external builder can produce for version v
BuildOutputs(v) ==
  { {<<IndexHtml>>, <<Api, IndexHtml>>},
    {<<IndexHtml>>, <<SearchHtml>>},
    {<<IndexHtml>>, <<v, IndexHtml>>} }

\* ------------------------------------------------------------------------
\* VersionManagement: the catalog
\* ------------------------------------------------------------------------

\* get_last_n_versions: the n newest releases (releases?per_page=n)
get_last_n_versions(n) == SubSeq(releases, 1, IF n < Len(releases) THEN n ELSE Len(releases))

\* self.latest_version = self.last_n_versions[0]
latest_version == last_n_versions[1]

dropdown_versions_in_order ==
  (IF ~args.exclude_default_branch THEN <<Master>> ELSE <<>>) \o last_n_versions

\* variant: every option gets the latest(...) label
get_text_for_option_AlwaysLatest(version_in_dropdown, latest) ==
  <<"l","a","t","e","s","t","(">> \o version_in_dropdown \o <<")">>

get_text_for_option(version_in_dropdown, latest) ==
  IF version_in_dropdown = latest
  THEN <<"l","a","t","e","s","t","(">> \o version_in_dropdown \o <<")">>
  ELSE version_in_dropdown

\* variant: the versions are compared by their first character
is_option_selected_FirstChar(version_in_dropdown, version_in_dir) == version_in_dropdown[1] = version_in_dir[1]

is_option_selected(version_in_dropdown, version_in_dir) == version_in_dropdown = version_in_dir

\* ------------------------------------------------------------------------
\* __main__ and the constructor
\* ------------------------------------------------------------------------

Modes == {"full", "default_only", "latest_only"}

\* the script is started: VersionManagement(args, docsdir), then the branch
\* of __main__ chosen by the flags
StartRun ==
  /\ pc \in {"idle", "aborted"}
  /\ runNo < MaxRuns
  /\ releases /= <<>>
  /\ \E mode \in Modes, exclude \in BOOLEAN, n \in 1..MaxReleases :
       /\ args' = [mode |-> mode, exclude_default_branch |-> exclude, num_releases |-> n]
       /\ last_n_versions' = get_last_n_versions(n)
       /\ pc' = IF mode = "full" THEN "status" ELSE "build"
       /\ queue' = IF mode = "default_only" THEN <<Master>>
                   ELSE IF mode = "latest_only" THEN <<get_last_n_versions(n)[1]>>
                   ELSE <<>>
  /\ existing_versions' = <<>>
  /\ non_existing_versions' = <<>>
  /\ version' = <<>>
  /\ workspaces' = {}
  /\ built' = {}
  /\ raised' = FALSE
  /\ outcome' = [materialized |-> {}, failed |-> {}]
  /\ warned' = FALSE
  /\ runNo' = runNo + 1
  /\ UNCHANGED <<linkVars, tree, releases>>

\* a release is published between two runs
Release ==
  /\ pc \in {"idle", "aborted"}
  /\ releases /= <<>>
  /\ releases[1] /= V2
  /\ releases' = <<IF releases[1] = V0 THEN V1 ELSE V2>> \o releases
  /\ UNCHANGED <<linkVars, tree, args, last_n_versions, existing_versions, non_existing_versions, pc, queue, version, workspaces, built, raised, outcome, warned, runNo>>

\* ------------------------------------------------------------------------
\* get_versions_status
\* ------------------------------------------------------------------------

RECURSIVE ScanListing(_, _, _)
\* the loop over os.listdir(self.docsdir)
ScanListing(listing, existing, a) ==
  IF listing = <<>> THEN existing
  ELSE LET dir == Head(listing)
           num_releases == IF ~a.exclude_default_branch THEN a.num_releases + 1 ELSE 0
       IN ScanListing(Tail(listing),
            IF /\ IsDir(tree, dir)
               /\ Len(existing) < num_releases
               /\ \/ (~a.exclude_default_branch /\ dir = Master)
                  \/ StartsWith(dir, <<"v">>)
            THEN Append(existing, dir)
            ELSE existing,
            a)

\* _relevant_versions - set(self._existing_versions)
NonExisting(existing, a) ==
  (Range(last_n_versions) \cup (IF ~a.exclude_default_branch THEN {Master} ELSE {}))
    \ Range(existing)

\* os.listdir and list(set) give their elements in an arbitrary order; an
\* entry that is not a directory fails the isdir test wherever it comes
GetVersionsStatus ==
  /\ pc = "status"
  /\ \E listing \in Orderings({d \in ListDir(tree) : IsDir(tree, d)}) :
       /\ existing_versions' = ScanListing(listing, <<>>, args)
       /\ \E order \in Orderings(NonExisting(ScanListing(listing, <<>>, args), args)) :
            /\ non_existing_versions' = order
            /\ queue' = order
  /\ pc' = "build"
  /\ UNCHANGED <<linkVars, tree, releases, args, last_n_versions, version, workspaces, built, raised, outcome, warned, runNo>>

\* ------------------------------------------------------------------------
\* build_versions: one iteration is Checkout, CleanupVersionDirectory,
\* BuildLocalOnly, RecreateVersionDirectory, ExitCheckout
\* ------------------------------------------------------------------------

\* CheckoutBranch.__enter__ for the next version: TemporaryDirectory() is
\* created, git worktree add is run without check, os.chdir(self.docsdir)
\* raises when the worktree has no docs directory.  An exception raised by
\* __enter__ leaves the with statement without a call of __exit__.
Checkout ==
  /\ pc = "build"
  /\ queue /= <<>>
  /\ version' = Head(queue)
  /\ queue' = Tail(queue)
  /\ \E worktree \in BOOLEAN, docs \in BOOLEAN :
       /\ docs => worktree
       /\ workspaces' = workspaces \cup {[version |-> Head(queue), worktree |-> worktree]}
       /\ pc' = IF docs THEN "cleanup" ELSE "aborted"
       /\ outcome' = IF docs THEN outcome ELSE [outcome EXCEPT !.failed = @ \cup {Head(queue)}]
  /\ UNCHANGED <<linkVars, tree, releases, args, last_n_versions, existing_versions, non_existing_versions, built, raised, warned, runNo>>

\* shutil.rmtree(os.path.join(gh_page_docs_dir, version), ignore_errors=True)
cleanup_version_directory(t, v) == Keep(t, {p \in DOMAIN t : ~(Len(p) > 1 /\ p[1] = v)})

CleanupVersionDirectory ==
  /\ pc = "cleanup"
  /\ tree' = cleanup_version_directory(tree, version)
  /\ pc' = "makedoc"
  /\ UNCHANGED <<linkVars, releases, args, last_n_versions, existing_versions, non_existing_versions, queue, version, workspaces, built, raised, outcome, warned, runNo>>

\* build_local_only: the assert on makedoc.sh or subprocess.run(check=True)
\* raises, or the builder ends and leaves its output (none when it wrote no
\* build_dir)
BuildLocalOnly ==
  /\ pc = "makedoc"
  /\ \E ok \in BOOLEAN, files \in BuildOutputs(version) \cup {{}} :
       /\ ~ok => files = {}
       /\ built' = files
       /\ raised' = ~ok
       /\ pc' = IF ok THEN "recreate" ELSE "exit"
  /\ UNCHANGED <<linkVars, tree, releases, args, last_n_versions, existing_versions, non_existing_versions, queue, version, workspaces, outcome, warned, runNo>>

\* recreate_version_directory: shutil.copytree raises when the source is
\* missing or the destination exists
RecreateVersionDirectory ==
  /\ pc = "recreate"
  /\ IF built = {} \/ IsDir(tree, version) \/ IsFile(tree, version)
     THEN raised' = TRUE /\ tree' = tree
     ELSE raised' = FALSE /\ tree' = CopyTree(tree, built, version, version)
  /\ pc' = "exit"
  /\ UNCHANGED <<linkVars, releases, args, last_n_versions, existing_versions, non_existing_versions, queue, version, workspaces, built, outcome, warned, runNo>>

\* CheckoutBranch.__exit__: git worktree remove, then the ExitStack removes
\* the temporary directory; an exception of the body goes on propagating,
\* through the for loop and __main__
ExitCheckout ==
  /\ pc = "exit"
  /\ workspaces' = {w \in workspaces : w.version /= version}
  /\ built' = {}
  /\ raised' = FALSE
  /\ pc' = IF raised THEN "aborted" ELSE "build"
  /\ outcome' = IF raised
                THEN [outcome EXCEPT !.failed = @ \cup {version}]
                ELSE [outcome EXCEPT !.materialized = @ \cup {version}]
  /\ UNCHANGED <<linkVars, tree, releases, args, last_n_versions, existing_versions, non_existing_versions, queue, version, warned, runNo>>

\* ------------------------------------------------------------------------
\* update_dropdown_options
\* ------------------------------------------------------------------------

\* get_html_filepaths: every file of the model is an .html file
get_html_filepaths(t, version_in_dir, latest) ==
  IF version_in_dir = latest
  THEN {p \in DOMAIN t : ~(StartsWith(p[1], Master) \/ StartsWith(p[1], Main) \/ StartsWith(p[1], <<"v">>))}
  ELSE {p \in DOMAIN t : Len(p) > 1 /\ p[1] = version_in_dir}

\* new_dropdown_options of one file
NewDropdownOptions(p, version_in_dir, order, latest) ==
  [i \in 1..Len(order) |->
     [version  |-> order[i],
      value    |-> get_value_for_option(DocsDir \o p, order[i], version_in_dir, latest),
      selected |-> is_option_selected(order[i], version_in_dir),
      text     |-> get_text_for_option(order[i], latest)]]

\* the inner loop: every file of version_in_dir gets the new options (the
\* page holds the selector or the container the selector is attached to)
RewriteVersion(t, version_in_dir, order, latest, run) ==
  [p \in DOMAIN t |->
     IF p \in get_html_filepaths(t, version_in_dir, latest)
     THEN [t[p] EXCEPT !.run = run, !.vdir = version_in_dir,
                       !.opts = NewDropdownOptions(p, version_in_dir, order, latest)]
     ELSE t[p]]

RECURSIVE update_dropdown_options(_, _, _, _, _)
update_dropdown_options(t, versions, order, latest, run) ==
  IF versions = <<>> THEN t
  ELSE update_dropdown_options(RewriteVersion(t, Head(versions), order, latest, run),
                               Tail(versions), order, latest, run)

\* the update_dropdown_options call of the branch of __main__, made when
\* build_versions has returned
UpdateDropdownOptions ==
  /\ pc = "build"
  /\ queue = <<>>
  /\ tree' = update_dropdown_options(tree,
               IF args.mode = "default_only" THEN <<Master>>
               ELSE IF args.mode = "latest_only" THEN <<latest_version>>
               ELSE dropdown_versions_in_order,
               dropdown_versions_in_order, latest_version, runNo)
  /\ pc' = IF args.mode = "default_only" THEN "finish" ELSE "promote"
  /\ UNCHANGED <<linkVars, releases, args, last_n_versions, existing_versions, non_existing_versions, queue, version, workspaces, built, raised, outcome, warned, runNo>>

\* ------------------------------------------------------------------------
\* move_latest_version_to_root
\* ------------------------------------------------------------------------

\* shutil.move(src=version_dir/content, dst=docsdir): the files src of
\* docsdir/<latest>/<content> come to docsdir/<content>
MoveUp(t, src) ==
  [p \in (DOMAIN t \ src) \cup {Tail(q) : q \in src} |->
     IF \E q \in src : Tail(q) = p
     THEN t[CHOOSE q \in src : Tail(q) = p]
     ELSE t[p]]

RECURSIVE MoveEntries(_, _, _)
\* the loop over os.listdir(version_dir): the entry of the same name at the
\* root is removed, then the entry is moved; shutil.move raises when its
\* source is gone
MoveEntries(t, listing, latest) ==
  IF listing = <<>> THEN [tree |-> t, raised |-> FALSE]
  ELSE LET content == Head(listing)
           removed == Keep(t, {p \in DOMAIN t : p[1] /= content})
           src     == {p \in DOMAIN removed : Len(p) > 1 /\ p[1] = latest /\ p[2] = content}
       IN IF src = {}
          THEN [tree |-> removed, raised |-> TRUE]
          ELSE MoveEntries(MoveUp(removed, src), Tail(listing), latest)

\* variant: no test of the version directory; os.listdir raises when it is
\* absent
move_latest_version_to_root_NoGuard(t, latest, listing) ==
  IF ~IsDir(t, latest)
  THEN [tree |-> t, result |-> "raised"]
  ELSE LET m == MoveEntries(t, listing, latest)
       IN IF m.raised
          THEN [tree |-> m.tree, result |-> "raised"]
          ELSE [tree |-> cleanup_version_directory(m.tree, latest), result |-> "moved"]

move_latest_version_to_root(t, latest, listing) ==
  IF ~IsDir(t, latest)
  THEN [tree |-> t, result |-> "warned"]
  ELSE LET m == MoveEntries(t, listing, latest)
       IN IF m.raised
          THEN [tree |-> m.tree, result |-> "raised"]
          ELSE [tree |-> cleanup_version_directory(m.tree, latest), result |-> "moved"]

MoveLatestVersionToRoot ==
  /\ pc = "promote"
  /\ \E listing \in Orderings(ListVersionDir(tree, latest_version)) :
       LET r == move_latest_version_to_root(tree, latest_version, listing)
       IN /\ tree' = r.tree
          /\ warned' = (r.result = "warned")
          /\ pc' = IF r.result = "raised" THEN "aborted" ELSE "finish"
  /\ UNCHANGED <<linkVars, releases, args, last_n_versions, existing_versions, non_existing_versions, queue, version, workspaces, built, raised, outcome, runNo>>

\* the end of __main__: gh_page.commit() when asked, ClonedDocs.__exit__
Finish ==
  /\ pc = "finish"
  /\ pc' = "idle"
  /\ UNCHANGED <<linkVars, tree, releases, args, last_n_versions, existing_versions, non_existing_versions, queue, version, workspaces, built, raised, outcome, warned, runNo>>

\* ------------------------------------------------------------------------
\* Runs of the script on a documentation tree
\* ------------------------------------------------------------------------

\* no link is being resolved
LinkIdle ==
  /\ link = <<>>
  /\ out = <<>>
  /\ hop = <<>>
  /\ direct = <<>>

\* a tree in the layout: version v promoted at the root, the versions of S
\* in their directories
Site(v, S) ==
  LET files == {<<IndexHtml>>, <<Api, IndexHtml>>}
      paths == files \cup {<<d>> \o f : d \in S, f \in files}
  IN [p \in paths |-> BuiltFile(IF p[1] \in S THEN p[1] ELSE v)]

\* the cloned docs repository: empty, or a site whose latest version is v1
InitTrees == {<<>>} \cup {Site(V1, S) : S \in SUBSET {Master, V0}}

RunInit ==
  /\ LinkIdle
  /\ tree \in InitTrees
  /\ releases = <<V1, V0>>
  /\ args = <<>>
  /\ last_n_versions = <<>>
  /\ existing_versions = <<>>
  /\ non_existing_versions = <<>>
  /\ pc = "idle"
  /\ queue = <<>>
  /\ version = <<>>
  /\ workspaces = {}
  /\ built = {}
  /\ raised = FALSE
  /\ outcome = [materialized |-> {}, failed |-> {}]
  /\ warned = FALSE
  /\ runNo = 0

RunNext ==
  \/ StartRun
  \/ Release
  \/ GetVersionsStatus
  \/ Checkout
  \/ CleanupVersionDirectory
  \/ BuildLocalOnly
  \/ RecreateVersionDirectory
  \/ ExitCheckout
  \/ UpdateDropdownOptions
  \/ MoveLatestVersionToRoot
  \/ Finish

RunSpec == RunInit /\ [][RunNext]_vars

\* ------------------------------------------------------------------------
\* Properties of the runs
\* ------------------------------------------------------------------------

\* every name a version directory can have
AllVersions == {Master, Main, V0, V1, V2}

\* the tracked versions of the current run
Tracked == Range(dropdown_versions_in_order)

\* the files unnested directly under docsdir
RootFiles == {p \in DOMAIN tree : p[1] \notin AllVersions}

\* version v is materialized below docsdir: as docsdir/<v>, or at the root
\* for the promoted latest
Materialized(v) ==
  \/ IsDir(tree, v)
  \/ v = latest_version /\ \E p \in RootFiles : tree[p].ver = v

\* get_versions_status has just returned
StatusReturned ==
  /\ pc = "build"
  /\ args.mode = "full"
  /\ queue = non_existing_versions
  /\ version = <<>>

\* C3: after get_versions_status, existing and missing versions partition
\* the tracked set, existing holds no untracked name, and a tracked version
\* is missing exactly when it is not materialized below docsdir.
C3_StatusPartition ==
  StatusReturned =>
    /\ \A v \in Tracked : (v \in Range(existing_versions)) /= (v \in Range(non_existing_versions))
    /\ Range(existing_versions) \subseteq Tracked
    /\ Range(non_existing_versions) \subseteq Tracked
    /\ \A v \in Tracked : (v \in Range(non_existing_versions)) <=> ~Materialized(v)

\* C4: outside the with block of build_versions (before the next iteration
\* and after build_versions has exited) no workspace is left on disk.
C4_WorkspaceReleased ==
  pc \notin {"cleanup", "makedoc", "recreate", "exit"} => workspaces = {}

\* the versions build_versions was asked to build in this run
AskedVersions ==
  IF args.mode = "default_only" THEN {Master}
  ELSE IF args.mode = "latest_only" THEN {latest_version}
  ELSE Range(non_existing_versions)

\* C5: when build_versions has ended, every version it was asked to build,
\* other than one that failed, has run its whole sequence.
C5_FailureIsolated ==
  pc \in {"aborted", "promote", "finish"} =>
    (AskedVersions \ outcome.failed) \subseteq outcome.materialized

\* the selector of the file at p was rewritten in this run, with one option
\* per tracked version, in order
Rewritten(p) ==
  /\ tree[p].run = runNo
  /\ [i \in DOMAIN tree[p].opts |-> tree[p].opts[i].version] = dropdown_versions_in_order

\* C6: when a full or latest-only run has completed, every document of the
\* versions it covers, the promoted documents included, has been rewritten
\* in this run.
C6_DropdownCoverage ==
  (pc = "finish" /\ args.mode \in {"full", "latest_only"}) =>
    \A p \in DOMAIN tree :
      (p \in RootFiles \/ (args.mode = "full" /\ p[1] \in Tracked)) => Rewritten(p)

\* the layout: the root holds the content of the latest version and of no
\* other, every other tracked version is in its directory
Layout ==
  /\ RootFiles /= {}
  /\ \A p \in RootFiles : tree[p].ver = latest_version
  /\ ~IsDir(tree, latest_version)
  /\ \A v \in Tracked \ {latest_version} :
       /\ IsDir(tree, v)
       /\ \A p \in DOMAIN tree : p[1] = v => tree[p].ver = v

\* C9: exactly the latest version's content is unnested under docsdir and
\* every other tracked version is in its directory; stated for the states
\* in which a full run has completed, with every build and the promotion
\* behind it.
C9_LayoutInvariant ==
  (pc = "finish" /\ args.mode = "full") => Layout

\* ------------------------------------------------------------------------
\* The methods update_dropdown_options and move_latest_version_to_root called
\* on a documentation tree, move_latest_version_to_root possibly again
\* ------------------------------------------------------------------------

\* what the root holds before the call: pages of a former latest version
FormerRootPaths == {<<IndexHtml>>, <<SearchHtml>>, <<Api, IndexHtml>>}

\* root pages of v0, docsdir/<latest> absent or just built, other versions in
\* their directories
MethodTree(root, output, latest, others) ==
  LET files == {<<IndexHtml>>, <<Api, IndexHtml>>}
      nested == {<<d>> \o f : d \in others, f \in files}
      fresh  == {<<latest>> \o f : f \in output}
  IN [p \in root \cup nested \cup fresh |->
        BuiltFile(IF p \in fresh THEN latest ELSE IF p \in nested THEN p[1] ELSE V0)]

MethodInit ==
  /\ LinkIdle
  /\ \E latest \in {V1, V2}, n \in 1..MaxReleases, mode \in Modes, exclude \in BOOLEAN :
       /\ releases = (IF latest = V2 THEN <<V2, V1, V0>> ELSE <<V1, V0>>)
       /\ last_n_versions = get_last_n_versions(n)
       /\ args = [mode |-> mode, exclude_default_branch |-> exclude, num_releases |-> n]
       /\ \E root \in SUBSET FormerRootPaths, output \in BuildOutputs(latest) \cup {{}},
             others \in SUBSET {Master, V0} :
            tree = MethodTree(root, output, latest, others)
  /\ existing_versions = <<>>
  /\ non_existing_versions = <<>>
  /\ pc = "build"
  /\ queue = <<>>
  /\ version = <<>>
  /\ workspaces = {}
  /\ built = {}
  /\ raised = FALSE
  /\ outcome = [materialized |-> {}, failed |-> {}]
  /\ warned = FALSE
  /\ runNo = 1

\* move_latest_version_to_root is called once more, nothing built in between
MoveLatestAgain ==
  /\ pc = "finish"
  /\ args.mode /= "default_only"
  /\ pc' = "promote"
  /\ UNCHANGED <<linkVars, tree, releases, args, last_n_versions, existing_versions, non_existing_versions, queue, version, workspaces, built, raised, outcome, warned, runNo>>

MethodNext == UpdateDropdownOptions \/ MoveLatestVersionToRoot \/ MoveLatestAgain

MethodSpec == MethodInit /\ [][MethodNext]_vars

\* the files below docsdir/<latest>
UnderLatest(t) == {p \in DOMAIN t : Len(p) > 1 /\ p[1] = latest_version}

\* C7: a call of move_latest_version_to_root with docsdir/<latest> present
\* brings every file of docsdir/<latest> to the same relative path under
\* docsdir, unchanged, removes docsdir/<latest>, and leaves the root entries
\* of other names as they were.
C7_PromotionPostcondition ==
  [][(pc = "promote" /\ IsDir(tree, latest_version)) =>
       /\ \A p \in UnderLatest(tree) : Tail(p) \in DOMAIN tree' /\ tree'[Tail(p)] = tree[p]
       /\ ~IsDir(tree', latest_version)
       /\ \A p \in DOMAIN tree :
            p[1] \notin (ListVersionDir(tree, latest_version) \cup {latest_version})
              => (p \in DOMAIN tree' /\ tree'[p] = tree[p])]_vars

\* C8: a call of move_latest_version_to_root with docsdir/<latest> absent
\* changes no file, raises nothing, logs the warning, and the run goes on to
\* its next step.
C8_PromotionIdempotent ==
  [][(pc = "promote" /\ ~IsDir(tree, latest_version)) =>
       (tree' = tree /\ warned' /\ pc' = "finish")]_vars

\* the second call has returned: the root holds the promoted pages and the
\* warning was logged
C8_Witness ==
  /\ pc = "finish"
  /\ warned
  /\ \E p \in RootFiles : tree[p].ver = latest_version

\* C10: in every rewritten document an option is marked selected exactly
\* when its version equals the version the document was rewritten for.
C10_Selection ==
  \A p \in DOMAIN tree :
    tree[p].run /= 0 =>
      \A i \in DOMAIN tree[p].opts :
        tree[p].opts[i].selected <=> (tree[p].opts[i].version = tree[p].vdir)

C10_Witness ==
  \E p \in DOMAIN tree :
    /\ tree[p].run /= 0
    /\ tree[p].vdir = V0
    /\ \E i, j \in DOMAIN tree[p].opts :
         /\ tree[p].opts[i].selected
         /\ tree[p].opts[i].version = V0
         /\ ~tree[p].opts[j].selected
         /\ tree[p].opts[j].version = V1

\* the text 'latest(v)'
LatestLabel(v) == <<"l","a","t","e","s","t","(">> \o v \o <<")">>

\* C11: the text of an option is 'latest(v)' exactly when its version v is
\* the latest version, and is v itself otherwise.
C11_Label ==
  \A p \in DOMAIN tree :
    tree[p].run /= 0 =>
      \A i \in DOMAIN tree[p].opts :
        LET o == tree[p].opts[i]
        IN /\ (o.text = LatestLabel(o.version)) <=> (o.version = latest_version)
           /\ o.version /= latest_version => o.text = o.version

C11_Witness ==
  \E p \in DOMAIN tree :
    /\ tree[p].run /= 0
    /\ \E i, j \in DOMAIN tree[p].opts :
         /\ tree[p].opts[i].version = V2
         /\ latest_version = V2
         /\ tree[p].opts[i].text = LatestLabel(V2)
         /\ tree[p].opts[j].version = V1
         /\ tree[p].opts[j].text = V1

C12_WitnessStripped ==
  /\ out /= <<>>
  /\ link.version_in_dropdown = link.version_in_dir
  /\ link.html_filepath = DocsDir \o <<V2, Api, IndexHtml>>
  /\ link.latest_version = V2
  /\ out[1].raw = Api \o <<"/">> \o IndexHtml

\* index of the last '/' of s, 0 when there is none
LastSlash(s) ==
  IF \E i \in 1..Len(s) : s[i] = "/"
  THEN CHOOSE i \in 1..Len(s) : s[i] = "/" /\ \A j \in (i + 1)..Len(s) : s[j] /= "/"
  ELSE 0

====
